---- MODULE Spec2Model ----
(***************************************************************************)
(* A model of src/src/main.rs: the Toolhelp snapshot iterator TlHelpIter,  *)
(* the three directory views built on it (ProcessEntry, ThreadEntry,       *)
(* ModuleEntry) and the Process handle wrapper.                            *)
(*                                                                         *)
(* The Windows calls the code makes are modelled by what they are          *)
(* documented to do: a Toolhelp snapshot is a fixed list of rows with a    *)
(* cursor, OpenProcess returns NULL on failure, CreateToolhelp32Snapshot   *)
(* returns INVALID_HANDLE_VALUE on failure, every failing call sets the    *)
(* thread's last-error code.  A name is the sequence of its UTF-16 code    *)
(* units; the exe names of process rows are taken to be well-formed, so    *)
(* that the to_str().unwrap() of from_name succeeds on them.               *)
(***************************************************************************)
EXTENDS Integers, Sequences, FiniteSets, TLC

VARIABLES
    build,      \* "debug" (overflow checks on) or "release" (wrapping arithmetic)
    snap,       \* the Toolhelp snapshot object the OS created last
    iter,       \* the directory view the consumer holds
    out,        \* what the last call on the view returned to the consumer
    yielded,    \* the values the view has handed to the consumer, in order
    obs,        \* what was observed of the next_item calls on the view
    ph,         \* the process handle object the OS issued last
    lasterr,    \* the thread's last-error code (GetLastError)
    proc,       \* the Process value the caller holds
    call        \* the last call on Process: its inputs, the OS's answers, its result

viewVars == <<iter, out, yielded, obs>>
procVars == <<ph, lasterr, proc, call>>
vars == <<build, snap, iter, out, yielded, obs, ph, lasterr, proc, call>>

----------------------------------------------------------------------------
(* Bounds of the model *)

MaxRows == 3        \* rows of a thread snapshot
MaxProcRows == 2    \* rows of a process or module snapshot
MaxPid == 2         \* owning pids / scope pids are 1..MaxPid
MaxCalls == 5       \* single next_item calls followed one by one from count 0
MaxNeeded == 2      \* small values EnumProcessModulesEx stores in *lpcbNeeded
MaxMods == 2        \* handles at the front of a module list that vary
MaxName == 2        \* UTF-16 code units of a name or path the OS writes
MaxData == 2        \* bytes handed to write_memory

(* Program constants *)

U16 == 65536                \* count: u32 is kept as two 16-bit limbs
InitSlots == 64             \* vec![0 as HMODULE; 64]
MAX_PATH == 260             \* [0 as u16; MAX_PATH]
INVALID_HANDLE_VALUE == -1
NULL == 0

Pids == 1..MaxPid

\* Exe and module names are strings over a two-letter alphabet.
Names == { <<1>>, <<2>>, <<1, 2>>, <<2, 1, 2>> }

RECURSIVE SeqsUpTo(_, _)
SeqsUpTo(S, n) ==
    IF n = 0 THEN { <<>> }
    ELSE LET shorter == SeqsUpTo(S, n - 1)
         IN  shorter \cup { Append(s, x) : s \in { t \in shorter : Len(t) = n - 1 }, x \in S }

\* UTF-16 code units: a letter, a high surrogate and a low surrogate.  File
\* names of the OS are arbitrary sequences of code units.
WideUnits == { 65, 55296, 56320 }
IsHigh(u) == u >= 55296 /\ u <= 56319
IsLow(u) == u >= 56320 /\ u <= 57343
WideNames == SeqsUpTo(WideUnits, MaxName)

\* Whether a sequence of code units is well-formed UTF-16: every surrogate
\* is half of a pair.
WellFormed(w) ==
    \A i \in 1..Len(w) :
        /\ IsHigh(w[i]) => (i < Len(w) /\ IsLow(w[i + 1]))
        /\ IsLow(w[i]) => (i > 1 /\ IsHigh(w[i - 1]))

\* Module names as the OS writes them in szModule: two plain names, a name
\* that is an unpaired surrogate, and a name that is a surrogate pair.
ModuleNames == { <<1>>, <<1, 2>>, <<55296>>, <<55296, 56320>> }

----------------------------------------------------------------------------
(* u32 arithmetic on the call counter *)

CountZero == [hi |-> 0, lo |-> 0]
CountMax == [hi |-> U16 - 1, lo |-> U16 - 1]

\* count + 1 modulo 2^32
CountInc(c) ==
    IF c.lo < U16 - 1 THEN [c EXCEPT !.lo = @ + 1]
    ELSE IF c.hi < U16 - 1 THEN [hi |-> c.hi + 1, lo |-> 0]
    ELSE CountZero

----------------------------------------------------------------------------
(* The OS side of a Toolhelp snapshot *)

\* Rows the OS can put in a snapshot of each kind.  Pids and tids are unique
\* within one snapshot, so a row is identified by its position.
ProcessRows(n) ==
    { [i \in 1..Len(ns) |-> [th32ProcessID |-> 10 + i, szExeFile |-> ns[i]]] :
        ns \in SeqsUpTo(Names, n) }

ThreadRows(n) ==
    { [i \in 1..Len(os) |-> [th32OwnerProcessID |-> os[i], th32ThreadID |-> 100 + i]] :
        os \in SeqsUpTo(Pids, n) }

ModuleRows(n) ==
    { [i \in 1..Len(ns) |-> [szModule |-> ns[i], modBaseAddr |-> 4096 * i,
                             modBaseSize |-> 512]] :
        ns \in SeqsUpTo(ModuleNames, n) }

NoSnap ==
    [h |-> NULL, kind |-> "none", rows |-> <<>>, cursor |-> 0, closes |-> 0,
     firsts |-> 0, nextSeen |-> FALSE, firstAfterNext |-> FALSE]

\* CreateToolhelp32Snapshot when it succeeds: a handle on a new snapshot that
\* holds `rows`.  At most one snapshot is open at a time, and the OS gives the
\* new one the handle value it has free.
NewSnap(kind, rows) ==
    [NoSnap EXCEPT !.h = 1, !.kind = kind, !.rows = rows]

\* Process32FirstW / Thread32First / Module32FirstW: copy the first row into
\* the caller's buffer and put the cursor on it; FALSE when there is none or
\* the handle is not an open snapshot.
Toolhelp32First(sn, h, data) ==
    LET seen == [sn EXCEPT !.firsts = @ + 1,
                           !.firstAfterNext = @ \/ sn.nextSeen]
    IN  IF sn.h = h /\ sn.closes = 0 /\ Len(sn.rows) >= 1
        THEN [ok |-> TRUE, data |-> sn.rows[1], snap |-> [seen EXCEPT !.cursor = 1]]
        ELSE [ok |-> FALSE, data |-> data, snap |-> seen]

\* Process32NextW / Thread32Next / Module32NextW: copy the row after the
\* cursor; FALSE (ERROR_NO_MORE_FILES) when the cursor is on the last row.
Toolhelp32Next(sn, h, data) ==
    LET seen == [sn EXCEPT !.nextSeen = TRUE]
    IN  IF sn.h = h /\ sn.closes = 0 /\ sn.cursor < Len(sn.rows)
        THEN [ok |-> TRUE, data |-> sn.rows[sn.cursor + 1],
              snap |-> [seen EXCEPT !.cursor = @ + 1]]
        ELSE [ok |-> FALSE, data |-> data, snap |-> seen]

\* CloseHandle on a snapshot handle: the snapshot and its rows are gone.
CloseSnapshot(sn, h) ==
    IF sn.h = h THEN [sn EXCEPT !.closes = @ + 1, !.rows = <<>>, !.cursor = 0] ELSE sn

----------------------------------------------------------------------------
(* TlHelpIter<T> *)

NoObs ==
    [calls |-> 0, lastFetch |-> "none", lastRet |-> "none", ended |-> FALSE,
     afterEnd |-> "none", drained |-> FALSE]

\* A constructor without the assertion.
TlHelpIter_new_unchecked(handle, data) ==
    [ok |-> TRUE, base |-> [count |-> CountZero, handle |-> handle, data |-> data]]

\* TlHelpIter::new: the assertion aborts on the invalid handle, otherwise the
\* iterator starts with count 0 and the caller's row buffer.
TlHelpIter_new(handle, data) ==
    [ok |-> handle # INVALID_HANDLE_VALUE,
     base |-> [count |-> CountZero, handle |-> handle, data |-> data]]

\* What one next_item call adds to the observations of a view.
Observe(ob, fetch, ret) ==
    [ob EXCEPT !.calls = IF @ < 2 THEN @ + 1 ELSE 2,
               !.lastFetch = fetch,
               !.lastRet = ret,
               !.ended = @ \/ ret = "end",
               !.afterEnd = IF ob.ended THEN ret ELSE @]

\* The fetch next_item chooses: f_next once count > 0, f_first at count 0.
FetchFor(count) == IF count # CountZero THEN "next" ELSE "first"

\* TlHelpIter::next_item on w = [base, snap, ob].  `self.count += 1` overflows
\* at u32::MAX: a build with overflow checks panics there (count is left as it
\* was), a build without them wraps to 0.
next_item(w) ==
    LET b == w.base
        which == FetchFor(b.count)
        f == IF which = "next"
             THEN Toolhelp32Next(w.snap, b.handle, b.data)
             ELSE Toolhelp32First(w.snap, b.handle, b.data)
        panics == b.count = CountMax /\ build = "debug"
        ret == IF panics THEN "panic" ELSE IF f.ok THEN "row" ELSE "end"
    IN  [base |-> [b EXCEPT !.data = f.data,
                            !.count = IF panics THEN @ ELSE CountInc(@)],
         snap |-> f.snap,
         ob   |-> Observe(w.ob, which, ret),
         ret  |-> ret]

\* A drop that forgets the handle.
TlHelpIter_drop_leak(sn, base) == sn

\* impl Drop for TlHelpIter: CloseHandle(self.handle).
TlHelpIter_drop(sn, base) == CloseSnapshot(sn, base.handle)

----------------------------------------------------------------------------
(* The directory views *)

Idle == [tag |-> "idle"]
None == [tag |-> "none"]
Panic == [tag |-> "panic"]
Some(item) == [tag |-> "some", item |-> item]

ProcessInfo(data) == [pid |-> data.th32ProcessID, name |-> data.szExeFile]
ThreadInfo(data) == [pid |-> data.th32OwnerProcessID, tid |-> data.th32ThreadID]
ModuleInfo(data) ==
    [name |-> data.szModule, base |-> data.modBaseAddr, size |-> data.modBaseSize]

\* What a view's next() gives back: the world after it and the Option.
Step(r, item) ==
    [base |-> r.base, snap |-> r.snap, ob |-> r.ob,
     item |-> IF r.ret = "panic" THEN Panic
              ELSE IF r.ret = "row" THEN Some(item) ELSE None]

\* impl Iterator for ProcessEntry
ProcessEntry_next(w) ==
    LET r == next_item(w) IN Step(r, ProcessInfo(r.base.data))

\* A thread view that ends at the first row of another process.
ThreadEntry_next_stop(w, pid) ==
    LET r == next_item(w)
    IN  IF r.ret = "row" /\ r.base.data.th32OwnerProcessID # pid
        THEN [base |-> r.base, snap |-> r.snap, ob |-> r.ob, item |-> None]
        ELSE Step(r, ThreadInfo(r.base.data))

\* impl Iterator for ThreadEntry: rows of other processes are skipped.
RECURSIVE ThreadEntry_next(_, _)
ThreadEntry_next(w, pid) ==
    LET r == next_item(w)
    IN  IF r.ret = "row" /\ r.base.data.th32OwnerProcessID # pid
        THEN ThreadEntry_next([base |-> r.base, snap |-> r.snap, ob |-> r.ob], pid)
        ELSE Step(r, ThreadInfo(r.base.data))

\* impl Iterator for ModuleEntry: `into_string().unwrap()` panics on a module
\* name that is not well-formed UTF-16.
ModuleEntry_next(w) ==
    LET r == next_item(w)
    IN  IF r.ret = "row" /\ ~WellFormed(r.base.data.szModule)
        THEN [base |-> r.base, snap |-> r.snap, ob |-> r.ob, item |-> Panic]
        ELSE Step(r, ModuleInfo(r.base.data))

\* The zeroed row buffers enum_process, enum_thread and enum_module start with.
ZeroProcessRow == [th32ProcessID |-> 0, szExeFile |-> <<>>]
ZeroThreadRow(pid) == [th32OwnerProcessID |-> pid, th32ThreadID |-> 0]
ZeroModuleRow == [szModule |-> <<>>, modBaseAddr |-> 0, modBaseSize |-> 0]

NoIter ==
    [st |-> "none", kind |-> "none", pid |-> 0,
     base |-> [count |-> CountZero, handle |-> NULL, data |-> ZeroProcessRow]]

----------------------------------------------------------------------------
(* The OS side of a process handle *)

NoHandle == [h |-> NULL, pid |-> 0, closes |-> 0, sym |-> "none"]

\* The process-handle part of the OS state.
ProcWorld == [ph |-> ph, lasterr |-> lasterr]

\* The codes OpenProcess fails with.
OpenErrors == { "ERROR_ACCESS_DENIED", "ERROR_INVALID_PARAMETER" }

\* What the OS answers to the calls of one from_pid / from_handle:
\*   opened  OpenProcess succeeds          err     the code it fails with
\*   pidOk   GetProcessId succeeds         symOk   SymInitializeW succeeds
Answers ==
    [opened : BOOLEAN, err : OpenErrors, pidOk : BOOLEAN, symOk : BOOLEAN]

\* OpenProcess(PROCESS_ALL_ACCESS, 0, pid): a handle on the process, or NULL
\* with the last-error code set.  `ph` follows the handle issued last; the
\* caller holds no other Process when it opens one.
OpenProcess(P, pid, ans) ==
    IF ans.opened
    THEN [handle |-> 101, P |-> [P EXCEPT !.ph = [NoHandle EXCEPT !.h = 101, !.pid = pid]]]
    ELSE [handle |-> NULL, P |-> [P EXCEPT !.lasterr = ans.err]]

\* Whether `handle` is an open process handle.
IsOpenHandle(P, handle) ==
    handle # NULL /\ handle # INVALID_HANDLE_VALUE /\ handle = P.ph.h /\ P.ph.closes = 0

\* GetProcessId(handle): the pid, or 0 with the last-error code set.
GetProcessId(P, handle, ans) ==
    IF IsOpenHandle(P, handle) /\ ans.pidOk
    THEN [pid |-> P.ph.pid, P |-> P]
    ELSE [pid |-> 0,
          P |-> [P EXCEPT !.lasterr = IF IsOpenHandle(P, handle)
                                      THEN "ERROR_ACCESS_DENIED"
                                      ELSE "ERROR_INVALID_HANDLE"]]

\* SymInitializeW(handle, null, TRUE): starts the symbol session of the handle.
SymInitializeW(P, handle, ans) ==
    IF IsOpenHandle(P, handle) /\ ans.symOk
    THEN [P EXCEPT !.ph.sym = "ok"]
    ELSE [P EXCEPT !.ph.sym = IF IsOpenHandle(P, handle) THEN "failed" ELSE @,
                   !.lasterr = "ERROR_INVALID_PARAMETER"]

\* last_error: FormatMessageW turns a code into its text, "" when it has none.
last_error(code) ==
    CASE code = "ERROR_ACCESS_DENIED" -> "Access is denied."
      [] code = "ERROR_INVALID_HANDLE" -> "The handle is invalid."
      [] code = "ERROR_INVALID_PARAMETER" -> "The parameter is incorrect."
      [] OTHER -> ""

\* last_error_str: the text of the code GetLastError returns now.
last_error_str(P) == last_error(P.lasterr)

----------------------------------------------------------------------------
(* Process *)

Ok(pid, handle) == [tag |-> "ok", pid |-> pid, handle |-> handle]
Err(text) == [tag |-> "err", err |-> text]

NotFound == "This Process is not exists"

\* What a constructor returns: the Result, the OS state after it, and what it
\* asked of OpenProcess.
Returned(ret, P, openCalled, openArg, openHandle) ==
    [ret |-> ret, P |-> P, openCalled |-> openCalled, openArg |-> openArg,
     openHandle |-> openHandle]

\* An adoption that gives up when the symbol session cannot be started.
from_handle_strict(P, handle, ans) ==
    LET g == GetProcessId(P, handle, ans)
        y == SymInitializeW(g.P, handle, ans)
    IN  IF g.pid = 0 THEN [ret |-> Err(last_error_str(g.P)), P |-> g.P]
        ELSE IF y.ph.sym # "ok" THEN [ret |-> Err(last_error_str(y)), P |-> y]
        ELSE [ret |-> Ok(g.pid, handle), P |-> y]

\* Process::from_handle
from_handle(P, handle, ans) ==
    LET g == GetProcessId(P, handle, ans)
    IN  IF g.pid = 0
        THEN [ret |-> Err(last_error_str(g.P)), P |-> g.P]
        ELSE [ret |-> Ok(g.pid, handle), P |-> SymInitializeW(g.P, handle, ans)]

\* Process::from_pid
from_pid(P, pid, ans) ==
    LET o == OpenProcess(P, pid, ans)
    IN  IF o.handle = INVALID_HANDLE_VALUE
        THEN Returned(Err(last_error_str(o.P)), o.P, TRUE, pid, o.handle)
        ELSE LET r == from_handle(o.P, o.handle, ans)
             IN  Returned(r.ret, r.P, TRUE, pid, o.handle)

\* str::find: the index of the first occurrence of `pat` in `hay`, -1 for None.
str_find(hay, pat) ==
    LET at == { i \in 0..(Len(hay) - Len(pat)) : SubSeq(hay, i + 1, i + Len(pat)) = pat }
    IN  IF at = {} THEN -1 ELSE CHOOSE i \in at : \A j \in at : i <= j

is_some(index) == index >= 0

\* A search that keeps the last row the predicate accepts.
RECURSIVE filter_last(_, _, _)
filter_last(w, name, best) ==
    LET s == ProcessEntry_next(w)
    IN  IF s.item.tag = "some"
        THEN filter_last([base |-> s.base, snap |-> s.snap, ob |-> s.ob], name,
                         IF is_some(str_find(s.item.item.name, name)) THEN s ELSE best)
        ELSE IF best.item.tag = "some"
             THEN [s EXCEPT !.item = best.item]
             ELSE s

filter_next_last(w, name) ==
    filter_last(w, name, [base |-> w.base, snap |-> w.snap, ob |-> w.ob, item |-> None])

\* A search that returns the first row the predicate accepts after it has
\* fetched every row of the snapshot.
RECURSIVE filter_drain(_, _, _)
filter_drain(w, name, first) ==
    LET s == ProcessEntry_next(w)
    IN  IF s.item.tag = "some"
        THEN filter_drain([base |-> s.base, snap |-> s.snap, ob |-> s.ob], name,
                          IF first.tag = "none" /\ is_some(str_find(s.item.item.name, name))
                          THEN s.item ELSE first)
        ELSE IF first.tag = "some" THEN [s EXCEPT !.item = first] ELSE s

filter_next_drain(w, name) == filter_drain(w, name, None)

\* Filter::next over enum_process(): the next ProcessInfo whose name contains
\* `name`; rows before it are fetched and passed over.
RECURSIVE filter_next(_, _)
filter_next(w, name) ==
    LET s == ProcessEntry_next(w)
    IN  IF s.item.tag = "some" /\ ~is_some(str_find(s.item.item.name, name))
        THEN filter_next([base |-> s.base, snap |-> s.snap, ob |-> s.ob], name)
        ELSE s

\* Process::from_name.  `created`, `rows`: whether CreateToolhelp32Snapshot
\* succeeds and the rows of the snapshot.  The view is dropped when the
\* function returns; `count` is the number of next_item calls it has made.
from_name(P, sn, name, created, rows, ans) ==
    LET new == NewSnap("process", rows)
        h == IF created THEN new.h ELSE INVALID_HANDLE_VALUE
        n == TlHelpIter_new(h, ZeroProcessRow)
    IN  IF ~n.ok
        THEN [r |-> Returned(Panic, P, FALSE, 0, NULL), snap |-> sn, count |-> CountZero]
        ELSE LET s == filter_next([base |-> n.base, snap |-> new, ob |-> NoObs], name)
                 r == IF s.item.tag = "some" THEN from_pid(P, s.item.item.pid, ans)
                      ELSE IF s.item.tag = "panic" THEN Returned(Panic, P, FALSE, 0, NULL)
                      ELSE Returned(Err(NotFound), P, FALSE, 0, NULL)
             IN  [r |-> r, snap |-> TlHelpIter_drop(s.snap, s.base), count |-> s.base.count]

NoProc == [st |-> "none", pid |-> 0, handle |-> NULL]

NoCall ==
    [op |-> "none", pid |-> 0, name |-> <<>>, handle |-> NULL, created |-> FALSE,
     rows |-> <<>>,
     ans |-> [opened |-> FALSE, err |-> "ERROR_ACCESS_DENIED", pidOk |-> FALSE,
              symOk |-> FALSE],
     openCalled |-> FALSE, openArg |-> 0, openHandle |-> NULL, count |-> CountZero,
     ret |-> Idle]

----------------------------------------------------------------------------
(* The consumer of a directory view: construct, call next(), drop *)

World == [base |-> iter.base, snap |-> snap, ob |-> obs]

\* TlHelpIter::new on what CreateToolhelp32Snapshot returned: a fresh handle,
\* or INVALID_HANDLE_VALUE, on which the assertion aborts the caller.
Construct(kind, pid, rows, created, data) ==
    LET new == NewSnap(kind, rows)
        h == IF created THEN new.h ELSE INVALID_HANDLE_VALUE
        n == TlHelpIter_new(h, data)
    IN  /\ iter.st # "live"
        /\ snap' = IF created THEN new ELSE snap
        /\ iter' = IF n.ok
                   THEN [st |-> "live", kind |-> kind, pid |-> pid, base |-> n.base]
                   ELSE [NoIter EXCEPT !.st = "aborted", !.kind = kind, !.pid = pid]
        /\ out' = IF n.ok THEN Idle ELSE Panic
        /\ yielded' = <<>>
        /\ obs' = NoObs
        /\ UNCHANGED <<build, procVars>>

enum_process ==
    \E created \in BOOLEAN :
        \E rows \in IF created THEN ProcessRows(MaxProcRows) ELSE { <<>> } :
            Construct("process", 0, rows, created, ZeroProcessRow)

enum_thread ==
    \E pid \in Pids, created \in BOOLEAN :
        \E rows \in IF created THEN ThreadRows(MaxRows) ELSE { <<>> } :
            Construct("thread", pid, rows, created, ZeroThreadRow(pid))

enum_module ==
    \E pid \in Pids, created \in BOOLEAN :
        \E rows \in IF created THEN ModuleRows(MaxProcRows) ELSE { <<>> } :
            Construct("module", pid, rows, created, ZeroModuleRow)

\* A consumer that can still call next() on a view it has dropped.
CanStep_after_drop ==
    /\ iter.st \in { "live", "dropped" }
    /\ \/ iter.base.count.hi = 0 /\ iter.base.count.lo < MaxCalls
       \/ iter.base.count = CountMax

\* The calls the model follows one by one: the first MaxCalls, and the call
\* made at count = u32::MAX.
CanStep ==
    /\ iter.st = "live"
    /\ \/ iter.base.count.hi = 0 /\ iter.base.count.lo < MaxCalls
       \/ iter.base.count = CountMax

\* Handing out references into the row buffer: every value the consumer
\* holds shows what the buffer holds now.
Cloned_alias(handed, item) == [i \in 1..(Len(handed) + 1) |-> item]

\* The item a view returns is built from copies of the buffer's fields
\* (self.data.clone(), OsString::from_wide): the consumer's earlier values
\* stay as they are and the new one is added.
Cloned(handed, item) == Append(handed, item)

\* The consumer receives what next() returned.
Deliver(s) ==
    /\ iter' = [iter EXCEPT !.base = s.base]
    /\ snap' = s.snap
    /\ obs' = s.ob
    /\ out' = s.item
    /\ yielded' = IF s.item.tag = "some" THEN Cloned(yielded, s.item.item) ELSE yielded
    /\ UNCHANGED <<build, procVars>>

NextProcess ==
    /\ CanStep
    /\ iter.kind = "process"
    /\ Deliver(ProcessEntry_next(World))

NextThread ==
    /\ CanStep
    /\ iter.kind = "thread"
    /\ Deliver(ThreadEntry_next(World, iter.pid))

NextModule ==
    /\ CanStep
    /\ iter.kind = "module"
    /\ Deliver(ModuleEntry_next(World))

\* The consumer keeps calling next() on an exhausted view until count is
\* u32::MAX.  Every one of these calls is a next_item that invokes f_next,
\* gets FALSE from it and adds one to count: the row buffer and the
\* snapshot's cursor are left as they are.  Followed once per view.
NextUntilCountMax ==
    /\ iter.st = "live"
    /\ ~obs.drained
    /\ iter.base.count # CountZero
    /\ iter.base.count # CountMax
    /\ snap.closes = 0
    /\ snap.cursor = Len(snap.rows)
    /\ iter' = [iter EXCEPT !.base.count = CountMax]
    /\ snap' = [snap EXCEPT !.nextSeen = TRUE]
    /\ obs' = [obs EXCEPT !.calls = 2, !.lastFetch = "next", !.lastRet = "end",
                          !.ended = TRUE, !.afterEnd = "end", !.drained = TRUE]
    /\ out' = None
    /\ UNCHANGED <<build, yielded, procVars>>

\* The view goes out of scope: its TlHelpIter is dropped.
DropView ==
    /\ iter.st = "live"
    /\ snap' = TlHelpIter_drop(snap, iter.base)
    /\ iter' = [iter EXCEPT !.st = "dropped"]
    /\ UNCHANGED <<build, out, yielded, obs, procVars>>

Init ==
    /\ build \in { "debug", "release" }
    /\ snap = NoSnap
    /\ iter = NoIter
    /\ out = Idle
    /\ yielded = <<>>
    /\ obs = NoObs
    /\ ph = NoHandle
    /\ lasterr = "ERROR_SUCCESS"
    /\ proc = NoProc
    /\ call = NoCall

NextIter ==
    \/ enum_process
    \/ enum_thread
    \/ enum_module
    \/ NextProcess
    \/ NextThread
    \/ NextModule
    \/ NextUntilCountMax
    \/ DropView

SpecIter == Init /\ [][NextIter]_vars

----------------------------------------------------------------------------
(* The caller of Process: open by pid, by name, adopt a handle, drop *)

\* The pids and the name fragments callers ask for.
TargetPids == { 10 + i : i \in 1..MaxProcRows }
Needles == { <<>>, <<1>>, <<1, 2>>, <<2, 2>> }

\* Answers that differ only in a call that is never made are the same answer.
Relevant(ans) ==
    /\ ans.opened => ans.err = "ERROR_ACCESS_DENIED"
    /\ ~ans.opened => ~ans.pidOk
    /\ ~ans.pidOk => ~ans.symOk

\* The caller is between two calls and holds no Process.
CanCall == call.op = "none" /\ proc.st # "live"

\* The caller receives the Result of a constructor.
Receive(op, pid, name, handle, created, rows, ans, r, count) ==
    /\ ph' = r.P.ph
    /\ lasterr' = r.P.lasterr
    /\ proc' = IF r.ret.tag = "ok"
               THEN [st |-> "live", pid |-> r.ret.pid, handle |-> r.ret.handle]
               ELSE NoProc
    /\ call' = [op |-> op, pid |-> pid, name |-> name, handle |-> handle,
                created |-> created, rows |-> rows, ans |-> ans, openCalled |-> r.openCalled,
                openArg |-> r.openArg, openHandle |-> r.openHandle, count |-> count,
                ret |-> r.ret]

Call_from_pid ==
    /\ CanCall
    /\ \E pid \in TargetPids, ans \in Answers :
        /\ Relevant(ans)
        /\ Receive("from_pid", pid, <<>>, NULL, FALSE, <<>>, ans,
                   from_pid(ProcWorld, pid, ans), CountZero)
    /\ UNCHANGED <<build, snap, viewVars>>

Call_from_name ==
    /\ CanCall
    /\ \E name \in Needles, created \in BOOLEAN, ans \in Answers :
        \E rows \in IF created THEN ProcessRows(MaxProcRows) ELSE { <<>> } :
            LET f == from_name(ProcWorld, snap, name, created, rows, ans)
            IN  /\ Relevant(ans)
                /\ f.r.openCalled \/ ans = NoCall.ans
                /\ Receive("from_name", 0, name, NULL, created, rows, ans, f.r, f.count)
                /\ snap' = f.snap
    /\ UNCHANGED <<build, viewVars>>

\* Process::from_handle on a handle of the caller's: one the OS opened for it
\* on some process, or NULL.
Call_from_handle ==
    /\ CanCall
    /\ \E pid \in TargetPids, ans \in Answers :
        LET o == OpenProcess(ProcWorld, pid, ans)
            r == from_handle(o.P, o.handle, ans)
        IN  /\ Relevant(ans)
            /\ Receive("from_handle", 0, <<>>, o.handle, FALSE, <<>>, ans,
                       Returned(r.ret, r.P, FALSE, 0, NULL), CountZero)
    /\ UNCHANGED <<build, snap, viewVars>>

\* The Process value goes out of scope.  Process has no Drop impl: its fields
\* are a u32 and a raw handle, so nothing is called on the handle.
DropProcess ==
    /\ proc.st = "live"
    /\ proc' = [proc EXCEPT !.st = "dropped"]
    /\ UNCHANGED <<build, snap, viewVars, ph, lasterr, call>>

\* The caller is done with the Result of the last call and may call again.
Return ==
    /\ call.op # "none"
    /\ call' = NoCall
    /\ UNCHANGED <<build, snap, viewVars, ph, lasterr, proc>>

NextProc ==
    \/ Call_from_pid
    \/ Call_from_name
    \/ Call_from_handle
    \/ DropProcess
    \/ Return

SpecProc == Init /\ [][NextProc]_vars

----------------------------------------------------------------------------
(* Process::get_modules *)

\* The module handles of the target process, as the OS hands them out.
\* GetModuleInformation fails on handle 2, GetModuleBaseNameW fails on
\* handle 3; NULL is no module.
ModuleHandles == { 1, 2, 3 }
InfoFails == { 2 }
NameFails == { 3 }

\* InitSlots module handles that can all be queried: the tail of the module
\* list of a process that has more modules than the first buffer holds.
ManyModules == [i \in 1..InitSlots |-> 1]

\* What the OS answers to one EnumProcessModulesEx call: its BOOL result, the
\* value it stores in *lpcbNeeded, and the handles it has to write.
Queries ==
    [result : { 0, 1 }, needed : (0..MaxNeeded) \cup { InitSlots + 1 },
     mods : SeqsUpTo(ModuleHandles \cup { NULL }, MaxMods)]

\* EnumProcessModulesEx on a buffer of Len(buf) slots: the handles that fit
\* are written over the front of the buffer.
EnumProcessModulesEx(buf, q, many) ==
    LET list == IF many THEN q.mods \o ManyModules ELSE q.mods
    IN  [result |-> q.result,
         needed |-> q.needed,
         buf |-> [i \in 1..Len(buf) |-> IF i <= Len(list) THEN list[i] ELSE buf[i]]]

\* A resize that leaves the vector as it is.
resize_none(buf, n) == buf

\* Vec::resize(n, null): cut to n slots, or filled up to n slots with null.
resize(buf, n) == [i \in 1..n |-> IF i <= Len(buf) THEN buf[i] ELSE NULL]

\* GetModuleInformation on one module handle.
GetModuleInformation(hModule) == IF hModule \in InfoFails THEN 0 ELSE 1

\* What the OS answers to a query for a name or a path: whether it succeeds,
\* the code units it writes, and the last-error code it sets when it fails.
QueryErrors == { "ERROR_INVALID_HANDLE", "ERROR_ACCESS_DENIED" }
NameAnswers ==
    { q \in [ok : BOOLEAN, name : WideNames, err : QueryErrors] :
        /\ q.ok => (q.name # <<>> /\ q.err = "ERROR_INVALID_HANDLE")
        /\ ~q.ok => q.name = <<>> }

\* The buffer `[0 as u16; MAX_PATH]` with `name` written over its front: the
\* code units written and the zeros that follow them.
WideBuf(name) == [units |-> name, nuls |-> MAX_PATH - Len(name)]

\* GetModuleBaseNameW and GetModuleFileNameExW return the number of code units
\* copied, 0 on failure; QueryFullProcessImageNameW returns a BOOL.
GetModuleBaseNameW(q) ==
    [ret |-> IF q.ok THEN Len(q.name) ELSE 0, buf |-> WideBuf(q.name), err |-> q.err]
GetModuleFileNameExW(q) ==
    [ret |-> IF q.ok THEN Len(q.name) ELSE 0, buf |-> WideBuf(q.name), err |-> q.err]
QueryFullProcessImageNameW(q) ==
    [ret |-> IF q.ok THEN 1 ELSE 0, buf |-> WideBuf(q.name), err |-> q.err]

\* OsString::from_wide(&buf).into_string().map_err(|x| "".to_string()): the
\* whole buffer as a String, or Err("") when it is not well-formed.
into_string_map_err(buf) ==
    IF WellFormed(buf.units) THEN [tag |-> "ok", name |-> buf] ELSE Err("")

\* The tail shared by get_module_name, get_module_path and image_file_name,
\* on what the native query n returned.
NameResult(n) ==
    IF n.ret > 0 THEN into_string_map_err(n.buf) ELSE Err(last_error(n.err))

\* Process::get_module_name, get_module_path, image_file_name
get_module_name(module, q) == NameResult(GetModuleBaseNameW(q))
get_module_path(module, q) == NameResult(GetModuleFileNameExW(q))
image_file_name(q) == NameResult(QueryFullProcessImageNameW(q))

\* What GetModuleBaseNameW answers for the module handles of get_modules.
BaseNameOf(hModule) ==
    IF hModule \in NameFails
    THEN [ok |-> FALSE, name |-> <<>>, err |-> "ERROR_INVALID_HANDLE"]
    ELSE [ok |-> TRUE, name |-> <<hModule>>, err |-> "ERROR_INVALID_HANDLE"]

\* The ModuleInfo pushed for a module handle.
PushedInfo(hModule) ==
    [base |-> hModule, size |-> 4096,
     name |-> get_module_name(hModule, BaseNameOf(hModule)).name]

\* A loop body that passes over a null slot and goes on.
LoopBody_skip_null(buf, i) ==
    IF i + 1 > Len(buf) THEN "panic"
    ELSE IF buf[i + 1] = NULL THEN "skip"
    ELSE IF GetModuleInformation(buf[i + 1]) = 0 THEN "skip"
    ELSE IF get_module_name(buf[i + 1], BaseNameOf(buf[i + 1])).tag # "ok" THEN "panic"
    ELSE "push"

\* What the body of the result loop does at 0-based index i: "panic" when the
\* index is past the vector or the name cannot be read (unwrap), "break" at a
\* null slot, "skip" when GetModuleInformation fails, else "push".
LoopBody(buf, i) ==
    IF i + 1 > Len(buf) THEN "panic"
    ELSE IF buf[i + 1] = NULL THEN "break"
    ELSE IF GetModuleInformation(buf[i + 1]) = 0 THEN "skip"
    ELSE IF get_module_name(buf[i + 1], BaseNameOf(buf[i + 1])).tag # "ok" THEN "panic"
    ELSE "push"

\* The result loop, `for i in 0 .. needed`: it runs up to the first index
\* whose body panics or breaks, and pushes the modules before that index.
collect(buf, needed) ==
    LET stops == { i \in 0..(needed - 1) : LoopBody(buf, i) \in { "panic", "break" } }
        last == IF stops = {} THEN needed ELSE CHOOSE i \in stops : \A j \in stops : i <= j
        pushed == SelectSeq([k \in 1..last |-> k - 1], LAMBDA i : LoopBody(buf, i) = "push")
    IN  IF last < needed /\ LoopBody(buf, last) = "panic" THEN Panic
        ELSE [tag |-> "some",
              list |-> [k \in 1..Len(pushed) |-> PushedInfo(buf[pushed[k] + 1])]]

\* Process::get_modules, given the answers q1 and q2 of the OS to the first
\* and to the second EnumProcessModulesEx call.
get_modules(q1, q2, many) ==
    LET first == EnumProcessModulesEx([i \in 1..InitSlots |-> NULL], q1, many)
        resized == resize(first.buf, first.needed)
        retry == first.result = 0
        second == IF retry THEN EnumProcessModulesEx(resized, q2, many)
                  ELSE [result |-> first.result, needed |-> first.needed, buf |-> resized]
    IN  [queries |-> IF retry THEN 2 ELSE 1,
         cap2 |-> IF retry THEN Len(resized) ELSE 0,
         buf |-> second.buf,
         ret |-> IF second.result = 0 THEN None
                 ELSE collect(second.buf, second.needed)]

\* A query that is not made is answered in one way only, and a query that
\* fails has written at most one handle.
NoQuery == [result |-> 0, needed |-> 0, mods |-> <<>>]

Call_get_modules ==
    /\ call.op = "none"
    /\ proc.st = "live"
    /\ ph.h = proc.handle
    /\ \E many \in BOOLEAN, q1 \in Queries, q2 \in Queries :
        /\ q1.result # 0 => q2 = NoQuery
        /\ q1.result = 0 => Len(q1.mods) <= 1
        /\ LET g == get_modules(q1, q2, many)
           IN  call' = [op |-> "get_modules", q1 |-> q1, q2 |-> q2, many |-> many,
                        queries |-> g.queries, cap2 |-> g.cap2, buf |-> g.buf,
                        ret |-> g.ret]
    /\ UNCHANGED <<build, snap, viewVars, ph, lasterr, proc>>

\* A Process that from_pid has opened on process 11.
InitMods ==
    /\ build \in { "debug", "release" }
    /\ snap = NoSnap
    /\ iter = NoIter
    /\ out = Idle
    /\ yielded = <<>>
    /\ obs = NoObs
    /\ ph \in { [h |-> 101, pid |-> 11, closes |-> 0, sym |-> y] : y \in { "ok", "failed" } }
    /\ lasterr \in { "ERROR_SUCCESS", "ERROR_INVALID_PARAMETER" }
    /\ (lasterr = "ERROR_SUCCESS") = (ph.sym = "ok")
    /\ proc = [st |-> "live", pid |-> 11, handle |-> 101]
    /\ call = NoCall

NextMods ==
    \/ Call_get_modules
    \/ Return

SpecMods == InitMods /\ [][NextMods]_vars

----------------------------------------------------------------------------
(* The other methods of Process, called on a live Process *)

\* WriteProcessMemory: its BOOL result and what it stores in
\* *lpNumberOfBytesWritten, at most the nSize bytes it was given.
WriteAnswers(nSize) == [ok : BOOLEAN, written : 0..nSize]
WriteProcessMemory(nSize, w) == [ret |-> IF w.ok THEN 1 ELSE 0, written |-> w.written]

\* A write that reports the requested length when the OS call succeeds.
write_memory_requested(data, w) ==
    IF WriteProcessMemory(Len(data), w).ret > 0 THEN Len(data) ELSE 0

\* Process::write_memory
write_memory(data, w) ==
    LET r == WriteProcessMemory(Len(data), w)
    IN  IF r.ret > 0 THEN r.written ELSE 0

\* The byte slices callers write.
Datas == SeqsUpTo({ 144 }, MaxData)

\* OsStr::new(symbol).encode_wide().collect(): the code units of the symbol,
\* with no terminating zero.
encode_wide(symbol) == symbol

\* The symbol names callers ask for, and the code units that lie behind the
\* vector in memory up to the next zero: SymFromNameW reads a zero-terminated
\* string from the pointer it is given.
SymbolNames == { <<65>>, <<65, 65>> }
Tails == { <<>>, <<65>> }

\* What the symbol session answers: whether it finds the name it read, and
\* the address it stores in si.Address when it does.
SymAnswers == [found : BOOLEAN, addr : { 4096, 8192 }]

\* SymFromNameW: FALSE when the session of the handle was never started or
\* the name is not found; si is left zeroed then.
SymFromNameW(P, name, a) ==
    IF P.ph.sym = "ok" /\ a.found
    THEN [ret |-> 1, Address |-> a.addr, read |-> name]
    ELSE [ret |-> 0, Address |-> 0, read |-> name]

\* A lookup that returns the BOOL of the session instead of the address.
get_address_by_symbol_flag(P, symbol, tail, a) ==
    SymFromNameW(P, encode_wide(symbol) \o tail, a).ret

\* Process::get_address_by_symbol
get_address_by_symbol(P, symbol, tail, a) ==
    LET r == SymFromNameW(P, encode_wide(symbol) \o tail, a)
    IN  IF r.ret > 0 THEN r.Address ELSE 0

\* A method is called on the live Process the caller holds.
CanUse == call.op = "none" /\ proc.st = "live" /\ ph.h = proc.handle /\ ph.closes = 0

\* The caller receives the Result of a name or path query.
ReceiveName(op, module, q, r) ==
    /\ call' = [op |-> op, module |-> module, q |-> q, ret |-> r]
    /\ lasterr' = IF q.ok THEN lasterr ELSE q.err
    /\ UNCHANGED <<build, snap, viewVars, ph, proc>>

Call_get_module_name ==
    /\ CanUse
    /\ \E module \in { 1, 2 }, q \in NameAnswers :
        ReceiveName("get_module_name", module, q, get_module_name(module, q))

Call_get_module_path ==
    /\ CanUse
    /\ \E module \in { 1, 2 }, q \in NameAnswers :
        ReceiveName("get_module_path", module, q, get_module_path(module, q))

Call_image_file_name ==
    /\ CanUse
    /\ \E q \in NameAnswers :
        ReceiveName("image_file_name", NULL, q, image_file_name(q))

Call_write_memory ==
    /\ CanUse
    /\ \E data \in Datas :
        \E w \in WriteAnswers(Len(data)) :
            /\ call' = [op |-> "write_memory", data |-> data, w |-> w,
                        ret |-> write_memory(data, w)]
            /\ lasterr' = IF w.ok THEN lasterr ELSE "ERROR_ACCESS_DENIED"
    /\ UNCHANGED <<build, snap, viewVars, ph, proc>>

Call_get_address_by_symbol ==
    /\ CanUse
    /\ \E symbol \in SymbolNames, tail \in Tails, a \in SymAnswers :
        /\ call' = [op |-> "get_address_by_symbol", symbol |-> symbol, tail |-> tail,
                    a |-> a, session |-> SymFromNameW(ProcWorld, encode_wide(symbol) \o tail, a),
                    ret |-> get_address_by_symbol(ProcWorld, symbol, tail, a)]
        /\ lasterr' = IF ph.sym = "ok" /\ a.found THEN lasterr ELSE "ERROR_INVALID_PARAMETER"
    /\ UNCHANGED <<build, snap, viewVars, ph, proc>>

NextOps ==
    \/ Call_get_module_name
    \/ Call_get_module_path
    \/ Call_image_file_name
    \/ Call_write_memory
    \/ Call_get_address_by_symbol
    \/ Return

SpecOps == InitMods /\ [][NextOps]_vars

----------------------------------------------------------------------------
(* Claims on the snapshot iterator and the directory views *)

Constructed == iter.st \in { "live", "dropped" }

\* C1: the snapshot handle of a constructed iterator is released exactly
\* once: it is open while the view is alive and closed once, never twice,
\* when the view has been dropped, however many rows were read before.
C1_ReleasedExactlyOnce ==
    /\ snap.closes <= 1
    /\ Constructed => snap.h = iter.base.handle
    /\ iter.st = "live" => snap.closes = 0
    /\ iter.st = "dropped" => snap.closes = 1

\* A view abandoned after its first row, with rows still unread.
C1_Witness ==
    /\ iter.st = "dropped"
    /\ iter.base.count = [hi |-> 0, lo |-> 1]
    /\ out.tag = "some"
    /\ ~obs.ended
    /\ snap.closes = 1

\* C3: the first next_item call invokes fetch-first, every later one invokes
\* fetch-next; fetch-first is invoked at most once on an iterator and never
\* after a fetch-next.
C3_FirstThenNext ==
    Constructed =>
        /\ obs.calls = 1 => obs.lastFetch = "first"
        /\ obs.calls = 2 => obs.lastFetch = "next"
        /\ snap.firsts <= 1
        /\ ~snap.firstAfterNext

\* C4: once a next_item call has returned "no more rows", every later call on
\* the same iterator returns "no more rows" too, and does not panic.
C4_StaysEnded ==
    Constructed => obs.afterEnd \in { "none", "end" }

Owned(rows, pid) == SelectSeq(rows, LAMBDA r : r.th32OwnerProcessID = pid)

ThreadInfos(rows) ==
    [i \in 1..Len(rows) |->
        [pid |-> rows[i].th32OwnerProcessID, tid |-> rows[i].th32ThreadID]]

\* The pass over the snapshot that started with the first call.
FirstPass == iter.st = "live" /\ snap.firsts <= 1

\* C5: the thread view scoped to pid yields the rows owned by pid among those
\* fetched so far, in their order, and it reports the end only when every row
\* of the snapshot has been fetched: rows of other processes are skipped.
C5_ThreadFilter ==
    (FirstPass /\ iter.kind = "thread") =>
        /\ yielded = ThreadInfos(Owned(SubSeq(snap.rows, 1, snap.cursor), iter.pid))
        /\ out.tag = "none" => yielded = ThreadInfos(Owned(snap.rows, iter.pid))
        /\ out.tag = "some" => out.item = yielded[Len(yielded)]

\* An enumeration that went past a foreign row and ended with two rows yielded.
C5_Witness ==
    /\ FirstPass
    /\ iter.kind = "thread"
    /\ out.tag = "none"
    /\ Len(snap.rows) = 3
    /\ snap.rows[2].th32OwnerProcessID # iter.pid
    /\ Len(yielded) = 2

\* C15: no iterator exists on INVALID_HANDLE_VALUE: a construction on it
\* aborts in the assertion, gives the consumer no view, and no f_first or
\* f_next call is made for it, for each of the three directory views.
C15_InvalidHandleAborts ==
    /\ Constructed => iter.base.handle # INVALID_HANDLE_VALUE
    /\ iter.st = "aborted" =>
        /\ out = Panic
        /\ obs = NoObs
        /\ yielded = <<>>
        /\ iter.base = NoIter.base

\* A thread view whose snapshot could not be created, after an earlier view
\* was read and dropped.
C15_Witness ==
    /\ iter.st = "aborted"
    /\ iter.kind = "thread"
    /\ out = Panic
    /\ snap.closes = 1
    /\ snap.firsts = 1

\* The rows the fetches of the view have written so far: the rows up to the
\* cursor, after all the rows of an earlier pass when count has wrapped and
\* f_first has run again.
Fetched ==
    IF snap.firsts <= 1 THEN SubSeq(snap.rows, 1, snap.cursor)
    ELSE snap.rows \o SubSeq(snap.rows, 1, snap.cursor)

\* The rows a view passes on to its consumer, and the value it makes of one.
PassedOn(rows) ==
    SelectSeq(rows, LAMBDA r :
        IF iter.kind = "thread" THEN r.th32OwnerProcessID = iter.pid
        ELSE IF iter.kind = "module" THEN WellFormed(r.szModule)
        ELSE TRUE)

ValueOf(r) ==
    IF iter.kind = "thread" THEN [pid |-> r.th32OwnerProcessID, tid |-> r.th32ThreadID]
    ELSE IF iter.kind = "module"
         THEN [name |-> r.szModule, base |-> r.modBaseAddr, size |-> r.modBaseSize]
    ELSE [pid |-> r.th32ProcessID, name |-> r.szExeFile]

InOrder ==
    iter.st = "live" =>
        yielded = [i \in 1..Len(PassedOn(Fetched)) |-> ValueOf(PassedOn(Fetched)[i])]

KeptAsHanded ==
    \A i \in 1..Len(yielded) : i <= Len(yielded') => yielded'[i] = yielded[i]

\* C16: the values a view has handed to its consumer are, in order, the
\* contents of the rows its successful fetches wrote and the view passed on,
\* and no step changes a value that was handed out before, although every
\* fetch overwrites the one row buffer of the iterator.
C16_HandedValuesAreCopies == [][KeptAsHanded /\ InOrder']_vars

\* Two different rows handed out one after the other from the same buffer.
C16_Witness ==
    /\ iter.st = "live"
    /\ iter.kind = "process"
    /\ Len(yielded) = 2
    /\ yielded[1] # yielded[2]
    /\ iter.base.data.szExeFile = yielded[2].name
    /\ yielded[1].name = snap.rows[1].szExeFile

\* A step in which the view made next_item calls, and a step that closed
\* the snapshot handle.
FetchStep == iter'.st = iter.st /\ iter'.base.count # iter.base.count
ReleaseStep == snap'.h = snap.h /\ snap'.closes > snap.closes

\* C20: every fetch is made by a live iterator on its own snapshot handle
\* while that handle is open; the step that closes the handle makes no fetch
\* and none follows it; and the snapshot a new iterator gets has had no
\* fetch by another iterator.
C20_NoFetchAfterRelease ==
    [][ /\ FetchStep =>
            /\ iter.st = "live"
            /\ snap.h = iter.base.handle
            /\ snap.closes = 0 /\ snap'.closes = 0
        /\ ReleaseStep =>
            /\ iter'.base.count = iter.base.count
            /\ iter.st = "live" /\ iter'.st = "dropped"
        /\ (iter.st # "live" /\ iter'.st = "live") =>
            /\ snap'.firsts = 0 /\ ~snap'.nextSeen /\ snap'.cursor = 0
            /\ snap'.closes = 0
      ]_vars

\* A view dropped after a first and a next fetch.
C20_Witness ==
    /\ iter.st = "dropped"
    /\ iter.base.count = [hi |-> 0, lo |-> 2]
    /\ snap.firsts = 1
    /\ snap.nextSeen
    /\ snap.closes = 1

----------------------------------------------------------------------------
(* Claims on the construction and the lifetime of a Process *)

\* C2: once a Process value has been dropped, the OS handle it held has been
\* closed, exactly once.
C2_HandleClosedOnDrop ==
    proc.st = "dropped" => (ph.h = proc.handle /\ ph.closes = 1)

\* `pat` occurs in `hay`: hay = a \o pat \o b for some a and b.
Occurs(pat, hay) ==
    \E i \in 0..Len(hay), j \in 0..Len(hay) : i <= j /\ SubSeq(hay, i + 1, j) = pat

\* The rows of a process directory whose name contains `name`.
Matching(rows, name) == { i \in 1..Len(rows) : Occurs(name, rows[i].szExeFile) }

Earliest(S) == CHOOSE i \in S : \A j \in S : i <= j

C10_OpenFailureReported ==
    (call.op = "from_pid" /\ ~call.ans.opened) =>
        /\ call.ret.tag = "err"
        /\ proc.st # "live"
        /\ call.ret.err = last_error(call.ans.err)

\* C11: from_handle returns Ok with the pid GetProcessId reported and the
\* handle it was given whenever GetProcessId returns a non-zero pid, whether
\* SymInitializeW succeeds or fails.
C11_AdoptIgnoresSymInit ==
    (call.op = "from_handle" /\ call.ans.opened /\ call.ans.pidOk) =>
        /\ call.ret = Ok(ph.pid, call.handle)
        /\ ph.pid \in TargetPids
        /\ proc.st # "none" /\ proc.pid = ph.pid /\ proc.handle = call.handle

\* An adoption whose SymInitializeW call failed.
C11_Witness ==
    /\ call.op = "from_handle"
    /\ call.ans.pidOk
    /\ ~call.ans.symOk
    /\ ph.sym = "failed"
    /\ call.ret.tag = "ok"
    /\ proc.st = "live"

\* C17: from_name makes no fetch after the one that produced the first
\* matching row (it has made as many next_item calls as that row's position,
\* or one more than there are rows when none matches), and the snapshot
\* handle is closed when it returns, whether the open succeeds or fails.
C17_StopsAtFirstMatch ==
    (call.op = "from_name" /\ call.created) =>
        LET ms == Matching(call.rows, call.name)
        IN  /\ call.count.hi = 0
            /\ call.count.lo = IF ms # {} THEN Earliest(ms) ELSE Len(call.rows) + 1
            /\ snap.h = 1 /\ snap.closes = 1

\* The first of two rows matches and the open of its pid fails: one fetch was
\* made and the snapshot is closed.
C17_Witness ==
    /\ call.op = "from_name"
    /\ call.created
    /\ Len(call.rows) = 2
    /\ 1 \in Matching(call.rows, call.name)
    /\ ~call.ans.opened
    /\ call.ret.tag = "err"
    /\ call.count.lo = 1
    /\ snap.closes = 1

\* C18: when from_pid returns an error, no process handle that the call
\* opened is still open.
C18_NoHandleLeftOnFailure ==
    (call.op = "from_pid" /\ call.ret.tag = "err") =>
        ~(call.openHandle # NULL /\ ph.h = call.openHandle /\ ph.closes = 0)

----------------------------------------------------------------------------
(* Claims on Process::get_modules *)

GotModules == call.op = "get_modules"

\* The handles the OS has to write in answer to query q.
Listed(q) == IF call.many THEN q.mods \o ManyModules ELSE q.mods

\* The first query fails and reports N = call.q1.needed slots, the second
\* succeeds, writes N slots and reports N.
GrowthCase ==
    /\ GotModules
    /\ call.q1.result = 0
    /\ call.q2.result # 0
    /\ call.q2.needed = call.q1.needed
    /\ Len(Listed(call.q2)) >= call.q1.needed

\* The slots the second query returned.
Returned2 == SubSeq(Listed(call.q2), 1, call.q1.needed)

\* The handles in front of the first null handle of a list.
BeforeNull(list) ==
    LET nulls == { i \in 1..Len(list) : list[i] = NULL }
    IN  IF nulls = {} THEN list
        ELSE SubSeq(list, 1, (CHOOSE i \in nulls : \A j \in nulls : i <= j) - 1)

\* C7 as stated: in the growth case get_modules makes exactly two queries
\* and returns a list as long as the number of non-null handles the second
\* query returned.
C7_LengthIsNonNullCount ==
    GrowthCase =>
        /\ call.queries = 2
        /\ call.ret.tag = "some"
        /\ Len(call.ret.list) =
              Cardinality({ i \in 1..Len(Returned2) : Returned2[i] # NULL })

\* C7 as amended: in the growth case get_modules makes exactly two queries;
\* it panics when the name of a module in front of the first null handle
\* cannot be read, and otherwise returns one entry for each handle in front
\* of the first null handle whose module information can be read, in order.
C7_LengthIsLeadingReadable ==
    GrowthCase =>
        LET lead == BeforeNull(Returned2)
            readable == SelectSeq(lead, LAMBDA h : h \notin InfoFails)
        IN  /\ call.queries = 2
            /\ IF \E i \in 1..Len(lead) : lead[i] \in NameFails
               THEN call.ret = Panic
               ELSE /\ call.ret.tag = "some"
                    /\ Len(call.ret.list) = Len(readable)
                    /\ \A i \in 1..Len(readable) : call.ret.list[i].base = readable[i]

\* The buffer grows past its first InitSlots slots and the second query fills
\* it; a null handle in the second slot ends the list after one module.
C7_Witness ==
    /\ GrowthCase
    /\ call.q1.needed > InitSlots
    /\ call.cap2 = call.q1.needed
    /\ Returned2[1] = 1
    /\ Returned2[2] = NULL
    /\ Returned2[3] = 1
    /\ call.ret.tag = "some"
    /\ Len(call.ret.list) = 1

BothFail == call.q1.result = 0 /\ call.q2.result = 0

\* C8: get_modules returns None exactly when both queries fail, and Some(list)
\* in every other case.
C8_NoneIffBothFail ==
    GotModules =>
        /\ call.ret = None <=> BothFail
        /\ ~BothFail => call.ret.tag = "some"

\* C9: get_modules makes one query when the first succeeds and two when the
\* first fails, the second on a buffer of at least the number of slots the
\* first reported; it never makes a third.
C9_AtMostOneRetry ==
    GotModules =>
        /\ call.queries \in { 1, 2 }
        /\ call.q1.result # 0 => call.queries = 1
        /\ call.q1.result = 0 => (call.queries = 2 /\ call.cap2 >= call.q1.needed)

\* Both queries fail, the second asking for more than the grown buffer holds:
\* two queries, no third.
C9_Witness ==
    /\ GotModules
    /\ BothFail
    /\ call.q1.needed > InitSlots
    /\ call.cap2 = call.q1.needed
    /\ call.queries = 2
    /\ call.ret = None

\* The indexes at which the result loop reads module_handles: index i is
\* read when no earlier pass through the body has ended the loop.
ReadIndexes(buf, needed) ==
    { i \in 0..(needed - 1) :
        \A j \in 0..(i - 1) : LoopBody(buf, j) \in { "skip", "push" } }

\* C19: whenever get_modules reaches its result loop, every index the loop
\* reads is below the length of module_handles.
C19_IndexInRange ==
    (GotModules /\ call.ret # None) =>
        LET needed == IF call.queries = 2 THEN call.q2.needed ELSE call.q1.needed
        IN  \A i \in ReadIndexes(call.buf, needed) : i < Len(call.buf)

----------------------------------------------------------------------------
(* Claims on the other methods of Process *)

NameOps == { "get_module_name", "get_module_path", "image_file_name" }

\* C12: get_module_name, get_module_path and image_file_name return Ok
\* exactly when the native query succeeds, and Err with the text of the OS
\* last error exactly when it fails: a native success never becomes an Err.
C12_OkIffNativeSuccess ==
    call.op \in NameOps =>
        /\ call.ret.tag = "ok" <=> call.q.ok
        /\ ~call.q.ok => call.ret = Err(last_error(lasterr))

\* C13: write_memory returns the count the OS stored when WriteProcessMemory
\* succeeds, which may be below the length asked for, and 0 when it fails;
\* for an empty slice it returns 0 in both cases.
C13_WrittenOrZero ==
    call.op = "write_memory" =>
        /\ call.ret = IF call.w.ok THEN call.w.written ELSE 0
        /\ call.ret \in 0..Len(call.data)
        /\ call.data = <<>> => call.ret = 0

\* A write that succeeds with fewer bytes than asked for.
C13_Witness ==
    /\ call.op = "write_memory"
    /\ call.w.ok
    /\ call.w.written = 1
    /\ Len(call.data) = 2
    /\ call.ret = 1

\* C14: get_address_by_symbol returns 0 when SymFromNameW reports failure and
\* the address SymFromNameW stored when it reports success.
C14_AddressOrZero ==
    call.op = "get_address_by_symbol" =>
        /\ call.session.ret = 0 => call.ret = 0
        /\ call.session.ret # 0 => (call.ret = call.session.Address /\ call.ret = call.a.addr)

\* A lookup that the session answers with an address.
C14_Witness ==
    /\ call.op = "get_address_by_symbol"
    /\ ph.sym = "ok"
    /\ call.a.found
    /\ call.ret = 8192

====
